---- MODULE Spec2Model ----
(***************************************************************************)
(* A model of critsec: the crit.Section lease primitive (package crit) and *)
(* the CritSection analyzer (package analysis): its scan of one file's     *)
(* syntax tree and its lease search over the VTA call graph.               *)
(***************************************************************************)
EXTENDS Naturals, Sequences, FiniteSets, TLC

VARIABLES
    edges,            \* the call graph: its edges <<caller, callee>> in the order they were added
    nf,               \* checkLease's argument, the containing function of the access
    result,           \* checkLease's outcome: "true", "false", "overflow" or "none"
    gpc,              \* the lease search: "build" the graph, then "done"
    file,             \* the analysed file: its sites (statements and declarations) in source order
    idx,              \* the next node of the file the inspector hands to the callback
    inspectedPos,     \* run's map of inspected token positions
    critSecTypesUsed, \* run's map of type names already instantiated
    reports,          \* the diagnostics of pass.Reportf, in order
    spc,              \* the scan: "scan", "crashed" (stack overflow in checkLease) or "off"
    lock,             \* crit.Section.lock: 0 when unlocked, else the goroutine whose Lock call holds it
    frames,           \* per goroutine, its Lease invocations in progress, innermost last
    calls,            \* per goroutine, the Lease calls it has made from outside a callback
    returned          \* per goroutine, the values its Lease calls returned, in order

gvars == <<edges, nf, result, gpc>>
svars == <<file, idx, inspectedPos, critSecTypesUsed, reports, spc>>
lvars == <<lock, frames, calls, returned>>
vars == <<edges, nf, result, gpc, file, idx, inspectedPos, critSecTypesUsed, reports, spc,
          lock, frames, calls, returned>>

(***************************************************************************)
(* Bounds of the model.                                                    *)
(***************************************************************************)
MaxEdges == 3        \* edges of the call graph in the lease search on its own
MaxScanEdges == 2    \* edges of the call graph under the scan
MaxSites == 2        \* sites of the analysed file
MaxParams == 2       \* parameters of the declared function
NumGoroutines == 2   \* goroutines that call Lease on the one Section
MaxCalls == 2        \* Lease calls of one goroutine
MaxDepth == 2        \* Lease invocations of one goroutine in progress at once

(***************************************************************************)
(* The program under analysis: its callable units and their positions.    *)
(***************************************************************************)
leaseFunction == "Lease"

\* the callable units of the call graph: the entry point, crit.Section.Lease,
\* a declared function and a function literal
Nodes == {"main", "Lease", "F", "L"}

\* ssa.Function.Name() of a call-graph node
FuncName(f) == f

\* ssa.Function.Pos(): the name identifier of a declared function, the func
\* keyword of a literal; Lease is declared in another file
FuncPos(f) ==
    CASE f = "main"  -> [file |-> "example.go", line |-> 1, col |-> 6]
      [] f = "F"     -> [file |-> "example.go", line |-> 2, col |-> 6]
      [] f = "L"     -> [file |-> "example.go", line |-> 3, col |-> 5]
      [] f = "K"     -> [file |-> "example.go", line |-> 4, col |-> 5]
      [] f = "N"     -> [file |-> "example.go", line |-> 5, col |-> 9]
      [] f = "Lease" -> [file |-> "crit.go",    line |-> 15, col |-> 22]

\* the syntax-tree node of a function of the analysed file: ast.FuncDecl.Pos()
\* is the func keyword at the start of the line
FuncNode(f) ==
    CASE f = "main" -> [kind |-> "FuncDecl", name |-> "main",
                        pos |-> [file |-> "example.go", line |-> 1, col |-> 1]]
      [] f = "F"    -> [kind |-> "FuncDecl", name |-> "F",
                        pos |-> [file |-> "example.go", line |-> 2, col |-> 1]]
      [] f = "L"    -> [kind |-> "FuncLit", name |-> "",
                        pos |-> [file |-> "example.go", line |-> 3, col |-> 5]]
      [] f = "K"    -> [kind |-> "FuncLit", name |-> "",
                        pos |-> [file |-> "example.go", line |-> 4, col |-> 5]]
      [] f = "N"    -> [kind |-> "FuncLit", name |-> "",
                        pos |-> [file |-> "example.go", line |-> 5, col |-> 9]]

FileFuncs == {"main", "F", "L"}

\* a second program: main passes the literal K to Lease, and K holds a
\* literal N of its own
NestedNodes == {"main", "Lease", "K", "N"}
NestedFuncs == {"K", "N"}

(***************************************************************************)
(* callgraph.Graph: every edge is appended to its caller's Out and to its  *)
(* callee's In, so both lists keep the order in which edges were added.    *)
(* An edge is named by its index in edges.                                 *)
(***************************************************************************)
Caller(e) == edges[e][1]
Callee(e) == edges[e][2]

EdgeIds == [i \in 1..Len(edges) |-> i]

In(n) == LET incoming(e) == Callee(e) = n IN SelectSeq(EdgeIds, incoming)
Out(n) == LET outgoing(e) == Caller(e) = n IN SelectSeq(EdgeIds, outgoing)

\* positionCompare: file name and line, not the column
positionCompare(a, b) == a.file = b.file /\ a.line = b.line

(***************************************************************************)
(* callgraph.GraphVisitEdges: a depth-first walk from every node of        *)
(* g.Nodes (a map: the order of the roots is not fixed), calling the       *)
(* visitor on each edge after the walk of its callee.                      *)
(***************************************************************************)
RECURSIVE visit(_, _, _), visitOut(_, _, _, _)
visit(n, seen, order) ==
    IF n \in seen THEN [seen |-> seen, order |-> order]
    ELSE visitOut(Out(n), 1, seen \cup {n}, order)
visitOut(out, i, seen, order) ==
    IF i > Len(out) THEN [seen |-> seen, order |-> order]
    ELSE LET r == visit(Callee(out[i]), seen, order)
         IN visitOut(out, i + 1, r.seen, Append(r.order, out[i]))

RECURSIVE visitRoots(_, _, _)
visitRoots(roots, i, st) ==
    IF i > Len(roots) THEN st.order
    ELSE visitRoots(roots, i + 1, visit(roots[i], st.seen, st.order))

\* g.Nodes: the callers and callees of the edges added
GraphNodes == {Caller(e) : e \in 1..Len(edges)} \cup {Callee(e) : e \in 1..Len(edges)}

RootOrders == {p \in [1..Cardinality(GraphNodes) -> GraphNodes] :
                 \A i, j \in DOMAIN p : i # j => p[i] # p[j]}

GraphVisitEdges(roots) == visitRoots(roots, 1, [seen |-> {}, order |-> <<>>])

\* every order in which GraphVisitEdges may hand the edges to its visitor
VisitOrders == {GraphVisitEdges(p) : p \in RootOrders}

(***************************************************************************)
(* checkLease and its recursive check closure.  check follows the first    *)
(* incoming edge of the caller only; when that walk comes back to an edge  *)
(* it already went through it repeats for ever, and the goroutine's stack  *)
(* overflows ("overflow": fatal error, the analysis dies).                 *)
(***************************************************************************)
RECURSIVE checkFrom(_, _)
checkFrom(e, walked) ==
    IF FuncName(Caller(e)) = leaseFunction THEN "true"
    ELSE IF Len(In(Caller(e))) = 0 THEN "false"
    ELSE LET in == In(Caller(e))[1]
         IN IF in \in walked THEN "overflow"
            ELSE checkFrom(in, walked \cup {in})

\* check, were it to answer true for any caller that is itself called
checkAnyCaller(e) == IF Len(In(Caller(e))) = 0 THEN "false" ELSE "true"
check(e) == checkFrom(e, {e})

\* the visitor of checkLease over the edges in the order given: the first
\* edge into nf whose check succeeds ends the visit
RECURSIVE leaseVisit(_, _, _)
leaseVisit(node, order, i) ==
    IF i > Len(order) THEN "false"
    ELSE IF positionCompare(node.pos, FuncPos(Callee(order[i])))
         THEN LET c == check(order[i])
              IN IF c = "false" THEN leaseVisit(node, order, i + 1) ELSE c
         ELSE leaseVisit(node, order, i + 1)

\* checkLease, were it to stop at the first edge into nf whatever its check
checkLeaseFirstEdge(node, order) ==
    LET into(e) == positionCompare(node.pos, FuncPos(Callee(e)))
        m == SelectSeq(order, into)
    IN IF Len(m) = 0 THEN "false" ELSE check(m[1])
checkLease(node, order) == leaseVisit(node, order, 1)

\* isFunctionInGraph: main always is; any other function is when some edge
\* of the graph calls a function on its line
isFunctionInGraph(node) ==
    IF node.kind = "FuncDecl" /\ node.name = "main" THEN TRUE
    ELSE \E e \in 1..Len(edges) : positionCompare(node.pos, FuncPos(Callee(e)))

(***************************************************************************)
(* The three parts of the repository are run apart: while one runs, the    *)
(* variables of the other two rest at these values.                        *)
(***************************************************************************)
Goroutines == 1..NumGoroutines

LockOff ==
    /\ lock = 0
    /\ frames = [g \in Goroutines |-> <<>>]
    /\ calls = [g \in Goroutines |-> 0]
    /\ returned = [g \in Goroutines |-> <<>>]

GraphOff ==
    /\ nf = "none"
    /\ result = "none"
    /\ gpc = "off"

ScanOff ==
    /\ file = <<>>
    /\ idx = 0
    /\ inspectedPos = {}
    /\ critSecTypesUsed = {}
    /\ reports = <<>>
    /\ spc = "off"

(***************************************************************************)
(* The lease search on its own: the call graph is built edge by edge (VTA  *)
(* over CHA, run lines 47-50), then checkLease runs once for a function    *)
(* that is in the graph.                                                   *)
(***************************************************************************)
GraphInit ==
    /\ edges = <<>>
    /\ nf = "none"
    /\ result = "none"
    /\ gpc = "build"
    /\ ScanOff
    /\ LockOff

AddEdge(c, d) ==
    /\ gpc = "build"
    /\ Len(edges) < MaxEdges
    /\ edges' = Append(edges, <<c, d>>)
    /\ UNCHANGED <<nf, result, gpc>>
    /\ UNCHANGED svars
    /\ UNCHANGED lvars

RunCheckLease(f) ==
    /\ gpc = "build"
    /\ isFunctionInGraph(FuncNode(f))
    /\ \E order \in VisitOrders :
         /\ nf' = f
         /\ result' = checkLease(FuncNode(f), order)
         /\ gpc' = "done"
         /\ UNCHANGED edges
         /\ UNCHANGED svars
         /\ UNCHANGED lvars

GraphNext ==
    \/ \E c \in Nodes, d \in Nodes : AddEdge(c, d)
    \/ \E f \in FileFuncs : RunCheckLease(f)

SpecGraph == GraphInit /\ [][GraphNext]_vars

(***************************************************************************)
(* The catalog of crit.Section types (run lines 56-83): every struct type  *)
(* with an anonymous field of type crit.Section is entered under its name  *)
(* and, as a pointer, under "*" and its name.                              *)
(***************************************************************************)
critName == "github.com/jetsetilly/critsec/crit.Section"

\* the type declarations of the analysed file: T embeds crit.Section, U does not
TypeSpecs ==
    { [name |-> "T", fields |-> <<[anon |-> TRUE, type |-> critName],
                                  [anon |-> FALSE, type |-> "int"]>>],
      [name |-> "U", fields |-> <<[anon |-> FALSE, type |-> "int"]>>] }

PointerTo(name) == CASE name = "T" -> "*T" [] name = "U" -> "*U"

embedsSection(ts) ==
    \E i \in 1..Len(ts.fields) : ts.fields[i].anon /\ ts.fields[i].type = critName

critSecTypesByName ==
    {ts.name : ts \in {t \in TypeSpecs : embedsSection(t)}}
      \cup {PointerTo(ts.name) : ts \in {t \in TypeSpecs : embedsSection(t)}}

\* types.ConvertibleTo between the types of the file: T, *T and U are
\* convertible to themselves only
ConvertibleTo(a, b) == a = b

(***************************************************************************)
(* The syntax tree of the analysed file, as the inspector walks it.  A     *)
(* site is one statement or declaration; its nodes are listed in the order *)
(* of the walk, each with the stack of its enclosing nodes.  The literal L *)
(* is written in the body of F.                                            *)
(***************************************************************************)
At(k, c) == [file |-> "example.go", line |-> 10 + k, col |-> c]

FileNode == [kind |-> "File", name |-> "", pos |-> [file |-> "example.go", line |-> 0, col |-> 1]]

StackOf(fn) ==
    CASE fn = "top"  -> <<FileNode>>
      [] fn = "main" -> <<FileNode, FuncNode("main")>>
      [] fn = "F"    -> <<FileNode, FuncNode("F")>>
      [] fn = "L"    -> <<FileNode, FuncNode("F"), FuncNode("L")>>
      [] fn = "K"    -> <<FileNode, FuncNode("main"), FuncNode("K")>>
      [] fn = "N"    -> <<FileNode, FuncNode("main"), FuncNode("K"), FuncNode("N")>>

AssignStmt(p, tok, rhs0, lhsLast) ==
    [kind |-> "AssignStmt", pos |-> p, tok |-> tok, rhs0 |-> rhs0, lhsLast |-> lhsLast]
SelectorExpr(p, xtype, sel) ==
    [kind |-> "SelectorExpr", pos |-> p, xtype |-> xtype, sel |-> sel]
ValueSpec(p, typeIsIdent, typeName) ==
    [kind |-> "ValueSpec", pos |-> p, typeIsIdent |-> typeIsIdent, typeName |-> typeName]
FuncDecl(p, name, params) ==
    [kind |-> "FuncDecl", pos |-> p, name |-> name, params |-> params]
OtherNode(p, what) == [kind |-> what, pos |-> p]

IdentExpr == [kind |-> "Ident", xtype |-> "int"]
SelExpr(xtype) == [kind |-> "SelectorExpr", xtype |-> xtype]
BasicLit == [kind |-> "BasicLit", typeIsIdent |-> FALSE, typeName |-> ""]
CompositeLit(name) == [kind |-> "CompositeLit", typeIsIdent |-> TRUE, typeName |-> name]

\* the nodes of site k in the order the inspector pushes them
SiteSyntax(site, k) ==
    CASE site.shape = "assign" ->       \* C.value = 4
           <<AssignStmt(At(k, 2), "=", BasicLit, SelExpr("T")),
             SelectorExpr(At(k, 2), "T", "value")>>
      [] site.shape = "read" ->         \* _ = C.value
           <<AssignStmt(At(k, 2), "=", SelExpr("T"), IdentExpr),
             SelectorExpr(At(k, 6), "T", "value")>>
      [] site.shape = "incdec" ->       \* C.value++
           <<OtherNode(At(k, 2), "IncDecStmt"),
             SelectorExpr(At(k, 2), "T", "value")>>
      [] site.shape = "binary" ->       \* _ = C.value + 1
           <<AssignStmt(At(k, 2), "=", [kind |-> "BinaryExpr", typeIsIdent |-> FALSE, typeName |-> ""], IdentExpr),
             OtherNode(At(k, 6), "BinaryExpr"),
             SelectorExpr(At(k, 6), "T", "value")>>
      [] site.shape = "exprstmt" ->     \* C.callback()
           <<OtherNode(At(k, 2), "ExprStmt"),
             OtherNode(At(k, 2), "CallExpr"),
             SelectorExpr(At(k, 2), "T", "callback")>>
      [] site.shape = "multiLast" ->    \* n, C.value = 1, 2
           <<AssignStmt(At(k, 2), "=", BasicLit, SelExpr("T")),
             OtherNode(At(k, 2), "Ident"),
             SelectorExpr(At(k, 5), "T", "value")>>
      [] site.shape = "multiFirst" ->   \* C.value, n = 1, 2
           <<AssignStmt(At(k, 2), "=", BasicLit, IdentExpr),
             SelectorExpr(At(k, 2), "T", "value"),
             OtherNode(At(k, 11), "Ident")>>
      [] site.shape = "leaseValue" ->   \* f := C.Lease
           <<AssignStmt(At(k, 2), ":=", SelExpr("T"), IdentExpr),
             SelectorExpr(At(k, 7), "T", leaseFunction)>>
      [] site.shape = "plain" ->        \* N.value = 3
           <<AssignStmt(At(k, 2), "=", BasicLit, SelExpr("U")),
             SelectorExpr(At(k, 2), "U", "value")>>
      [] site.shape = "varT" ->         \* var D T
           <<OtherNode(At(k, 2), "GenDecl"),
             ValueSpec(At(k, 6), TRUE, "T")>>
      [] site.shape = "varU" ->         \* var N U
           <<OtherNode(At(k, 2), "GenDecl"),
             ValueSpec(At(k, 6), TRUE, "U")>>
      [] site.shape = "shortT" ->       \* d := T{}
           <<AssignStmt(At(k, 2), ":=", CompositeLit("T"), IdentExpr)>>
      [] site.shape = "funcdecl" ->     \* func F(params) { ... }
           <<FuncDecl(FuncNode("F").pos, "F", site.params)>>

RECURSIVE SiteNodes(_, _, _)
SiteNodes(site, k, i) ==
    LET ns == SiteSyntax(site, k)
    IN IF i > Len(ns) THEN <<>>
       ELSE <<[node |-> ns[i],
               stack |-> IF ns[i].kind = "FuncDecl" THEN <<FileNode, ns[i]>>
                         ELSE Append(StackOf(site.fn), ns[i])]>>
              \o SiteNodes(site, k, i + 1)

RECURSIVE FileNodesFrom(_, _)
FileNodesFrom(f, k) ==
    IF k > Len(f) THEN <<>> ELSE SiteNodes(f[k], k, 1) \o FileNodesFrom(f, k + 1)
FileNodes == FileNodesFrom(file, 1)

(***************************************************************************)
(* nearestFunction: the innermost function declaration or literal of the   *)
(* stack, [ok |-> FALSE] when there is none.                               *)
(***************************************************************************)
RECURSIVE nearestFrom(_, _)
nearestFrom(stack, i) ==
    IF i = 0 THEN [ok |-> FALSE]
    ELSE IF stack[i].kind \in {"FuncDecl", "FuncLit"} THEN [ok |-> TRUE, fn |-> stack[i]]
    ELSE nearestFrom(stack, i - 1)
nearestFunction(stack) == nearestFrom(stack, Len(stack))

(***************************************************************************)
(* The callback of inspect.WithStack (run lines 90-262) on one node.  Each *)
(* operator gives the set of outcomes of the call: the registry and the    *)
(* diagnostics after it, and whether checkLease overflowed the stack.  The *)
(* outcome is not unique only where checkLease depends on the order of     *)
(* GraphVisitEdges.                                                        *)
(***************************************************************************)
Same == [used |-> critSecTypesUsed, reports |-> reports, crashed |-> FALSE]
Reportf(p, msg) ==
    [used |-> critSecTypesUsed, reports |-> Append(reports, [pos |-> p, msg |-> msg]),
     crashed |-> FALSE]
Use(name) ==
    [used |-> critSecTypesUsed \cup {name}, reports |-> reports, crashed |-> FALSE]
Crash == [used |-> critSecTypesUsed, reports |-> reports, crashed |-> TRUE]

msgArg == "crit.Section types cannot be passed to a function"
msgAccess == "access of crit.Section without Lease"
msgAssign == "assignment to crit.Section without Lease"
msgMultiple == "multiple instance of a crit.Section derived type"

\* the loop over the parameter list (lines 112-130): TRUE when it reports
RECURSIVE paramsReport(_, _)
paramsReport(ps, i) ==
    IF i > Len(ps) THEN FALSE
    ELSE CASE ps[i].kind = "StarExpr" ->
                IF ~ps[i].xIsIdent THEN FALSE
                ELSE IF ps[i].name \in critSecTypesByName THEN TRUE
                ELSE paramsReport(ps, i + 1)
           [] ps[i].kind = "Ident" ->
                IF ps[i].name \in critSecTypesByName THEN TRUE
                ELSE paramsReport(ps, i + 1)
           [] OTHER -> paramsReport(ps, i + 1)

\* case *ast.FuncDecl (lines 102-131)
onFuncDecl(m) ==
    IF ~isFunctionInGraph(m) THEN {Same}
    ELSE IF paramsReport(m.params, 1) THEN {Reportf(m.pos, msgArg)}
    ELSE {Same}

\* the type of the selector's operand is one of the catalog (lines 136-148, 226-238)
found(xtype) == \E c \in critSecTypesByName : ConvertibleTo(xtype, c)

\* the end of the callback (lines 248-259)
checked(n, stack, msg) ==
    LET near == nearestFunction(stack)
    IN IF ~near.ok THEN {Same}
       ELSE IF ~isFunctionInGraph(near.fn) THEN {Same}
       ELSE {CASE c = "true" -> Same
               [] c = "false" -> Reportf(n.pos, msg)
               [] c = "overflow" -> Crash
             : c \in {checkLease(near.fn, order) : order \in VisitOrders}}

\* case *ast.SelectorExpr (lines 135-157)
onSelectorExpr(m, stack) ==
    IF ~found(m.xtype) THEN {Same}
    ELSE IF m.sel = leaseFunction THEN {Same}
    ELSE checked(m, stack, msgAccess)

\* a second instance of a type name (lines 167-183 and 201-217)
instantiate(n, stack, name) ==
    IF name \in critSecTypesUsed
    THEN LET near == nearestFunction(stack)
         IN IF ~near.ok THEN {Same}
            ELSE IF ~isFunctionInGraph(near.fn) THEN {Same}
            ELSE {Reportf(n.pos, msgMultiple)}
    ELSE {Use(name)}

\* case *ast.ValueSpec (lines 159-183)
onValueSpec(m, stack) ==
    IF ~m.typeIsIdent THEN {Same} ELSE instantiate(m, stack, m.typeName)

\* case *ast.AssignStmt (lines 186-242)
onAssignStmt(m, stack) ==
    IF m.tok = ":="
    THEN IF m.rhs0.kind # "CompositeLit" THEN {Same}
         ELSE IF ~m.rhs0.typeIsIdent THEN {Same}
         ELSE instantiate(m, stack, m.rhs0.typeName)
    ELSE IF m.lhsLast.kind # "SelectorExpr" THEN {Same}
    ELSE IF ~found(m.lhsLast.xtype) THEN {Same}
    ELSE checked(m, stack, msgAssign)

callback(n, stack) ==
    CASE n.kind = "FuncDecl" -> onFuncDecl(n)
      [] n.kind = "SelectorExpr" -> onSelectorExpr(n, stack)
      [] n.kind = "ValueSpec" -> onValueSpec(n, stack)
      [] n.kind = "AssignStmt" -> onAssignStmt(n, stack)
      [] OTHER -> {Same}

(***************************************************************************)
(* The scan of one file (run lines 85-262).  The inspector calls the       *)
(* callback when it enters a node and again when it leaves it; the second  *)
(* call finds the position inspected and returns, so only the first is a   *)
(* step here.                                                              *)
(***************************************************************************)
ParamKinds ==
    { [kind |-> "StarExpr", xIsIdent |-> TRUE, name |-> "T"],     \* c *T
      [kind |-> "Ident", xIsIdent |-> FALSE, name |-> "T"],       \* c T
      [kind |-> "Ident", xIsIdent |-> FALSE, name |-> "int"],     \* n int
      [kind |-> "StarExpr", xIsIdent |-> FALSE, name |-> ""] }    \* w *bytes.Buffer

ParamLists == UNION {[1..n -> ParamKinds] : n \in 0..MaxParams}

AccessShapes == {"assign", "read", "incdec", "binary", "exprstmt", "multiLast", "multiFirst"}
DeclShapes == {"varT", "varU", "shortT"}
StmtShapes == AccessShapes \cup DeclShapes \cup {"leaseValue", "plain"}

DeclSites ==
    [shape : DeclShapes, fn : FileFuncs, params : {<<>>}]
      \cup [shape : {"varT", "varU"}, fn : {"top"}, params : {<<>>}]
Sites ==
    [shape : StmtShapes, fn : FileFuncs, params : {<<>>}]
      \cup DeclSites
      \cup [shape : {"funcdecl"}, fn : {"F"}, params : ParamLists]

\* the files of the analysis: at most MaxSites sites; the registry of
\* instantiated names is all that one site leaves to the next (positions
\* differ), so every site before the last is a declaration
Files ==
    UNION {{f \in [1..n -> Sites] : \A k \in 1..(n - 1) : f[k] \in DeclSites}
             : n \in 0..MaxSites}

Graphs(max) == UNION {[1..n -> Nodes \X Nodes] : n \in 0..max}

\* the field accesses of the second program, in K or in N
NestedSites == [shape : AccessShapes, fn : NestedFuncs, params : {<<>>}]

\* the call graphs of the second program: Lease calls K, K calls N, and
\* other calls among its functions come before, between or after the two
NestedGraphs(max) ==
    {g \in UNION {[1..n -> NestedNodes \X NestedNodes] : n \in 2..(max + 1)} :
       /\ \E e \in DOMAIN g : g[e] = <<"Lease", "K">>
       /\ \E e \in DOMAIN g : g[e] = <<"K", "N">>}

ScanStart ==
    /\ idx = 1
    /\ inspectedPos = {}
    /\ critSecTypesUsed = {}
    /\ reports = <<>>
    /\ spc = "scan"

Init ==
    /\ edges \in Graphs(MaxScanEdges)
    /\ file \in Files
    /\ ScanStart
    /\ GraphOff
    /\ LockOff

Visit ==
    /\ spc = "scan"
    /\ idx <= Len(FileNodes)
    /\ LET n == FileNodes[idx].node
           stack == FileNodes[idx].stack
       IN IF n.pos \in inspectedPos
          THEN /\ idx' = idx + 1
               /\ UNCHANGED <<inspectedPos, critSecTypesUsed, reports, spc>>
          ELSE \E r \in callback(n, stack) :
                 /\ inspectedPos' = inspectedPos \cup {n.pos}
                 /\ critSecTypesUsed' = r.used
                 /\ reports' = r.reports
                 /\ spc' = IF r.crashed THEN "crashed" ELSE "scan"
                 /\ idx' = idx + 1
    /\ UNCHANGED <<file, edges, nf, result, gpc>>
    /\ UNCHANGED lvars

Next == Visit

Spec == Init /\ [][Next]_vars

\* the scan of a file of one site, of either program
InitOne ==
    /\ \/ /\ edges \in Graphs(MaxScanEdges)
          /\ file \in {<<s>> : s \in Sites}
       \/ /\ edges \in NestedGraphs(MaxScanEdges)
          /\ file \in {<<s>> : s \in NestedSites}
    /\ ScanStart
    /\ GraphOff
    /\ LockOff

SpecOne == InitOne /\ [][Next]_vars

ScanDone == spc = "scan" /\ idx > Len(FileNodes)

(***************************************************************************)
(* crit.Section.Lease: Lock, the deferred Unlock, then the callback.  A    *)
(* frame is one invocation: at "lock" it waits in crit.lock.Lock(), at "f" *)
(* its callback runs, at "unlock" the callback has returned ret and the    *)
(* deferred crit.lock.Unlock() is due, at "return" Lease returns ret.      *)
(***************************************************************************)
Top(g) == frames[g][Len(frames[g])]
SetTop(g, fr) == [frames EXCEPT ![g] = [@ EXCEPT ![Len(@)] = fr]]
Push(g, fr) == [frames EXCEPT ![g] = Append(@, fr)]
Pop(g) == [frames EXCEPT ![g] = SubSeq(@, 1, Len(@) - 1)]

\* a lock that never blocks, and one that lets its holder in again
canLockShared(g) == TRUE
canLockReentrant(g) == lock = 0 \/ lock = g
\* sync.Mutex.Lock proceeds only when the mutex is unlocked, whoever locked it
canLock(g) == lock = 0

\* an Unlock written after the call, skipped when the callback fails
afterCallbackNilOnly(r) == IF r = "nil" THEN "unlock" ELSE "return"
\* where Lease goes when its callback has returned r: the deferred Unlock
\* runs on every return
afterCallback(r) == "unlock"

\* a goroutine calls Lease
Call(g) ==
    /\ frames[g] = <<>>
    /\ calls[g] < MaxCalls
    /\ calls' = [calls EXCEPT ![g] = @ + 1]
    /\ frames' = Push(g, [pc |-> "lock", ret |-> "none"])
    /\ UNCHANGED <<lock, returned>>
    /\ UNCHANGED gvars
    /\ UNCHANGED svars

\* the callback of a running Lease calls Lease on the same Section
NestedCall(g) ==
    /\ frames[g] # <<>>
    /\ Top(g).pc = "f"
    /\ Len(frames[g]) < MaxDepth
    /\ frames' = Push(g, [pc |-> "lock", ret |-> "none"])
    /\ UNCHANGED <<lock, calls, returned>>
    /\ UNCHANGED gvars
    /\ UNCHANGED svars

\* crit.lock.Lock() returns, f is called
Lock(g) ==
    /\ frames[g] # <<>>
    /\ Top(g).pc = "lock"
    /\ canLock(g)
    /\ lock' = g
    /\ frames' = SetTop(g, [pc |-> "f", ret |-> "none"])
    /\ UNCHANGED <<calls, returned>>
    /\ UNCHANGED gvars
    /\ UNCHANGED svars

\* the callback returns nil or an error
CallbackReturns(g, r) ==
    /\ frames[g] # <<>>
    /\ Top(g).pc = "f"
    /\ frames' = SetTop(g, [pc |-> afterCallback(r), ret |-> r])
    /\ UNCHANGED <<lock, calls, returned>>
    /\ UNCHANGED gvars
    /\ UNCHANGED svars

\* the deferred crit.lock.Unlock()
Unlock(g) ==
    /\ frames[g] # <<>>
    /\ Top(g).pc = "unlock"
    /\ lock' = 0
    /\ frames' = SetTop(g, [pc |-> "return", ret |-> Top(g).ret])
    /\ UNCHANGED <<calls, returned>>
    /\ UNCHANGED gvars
    /\ UNCHANGED svars

\* Lease returns what its callback returned
Return(g) ==
    /\ frames[g] # <<>>
    /\ Top(g).pc = "return"
    /\ frames' = Pop(g)
    /\ returned' = [returned EXCEPT ![g] = Append(@, Top(g).ret)]
    /\ UNCHANGED <<lock, calls>>
    /\ UNCHANGED gvars
    /\ UNCHANGED svars

LockInit ==
    /\ LockOff
    /\ edges = <<>>
    /\ GraphOff
    /\ ScanOff

LockNext ==
    \E g \in Goroutines :
        \/ Call(g)
        \/ NestedCall(g)
        \/ Lock(g)
        \/ \E r \in {"nil", "error"} : CallbackReturns(g, r)
        \/ Unlock(g)
        \/ Return(g)

SpecLock == LockInit /\ [][LockNext]_vars

\* some chain of caller edges leads from f up to a node named Lease
RECURSIVE callersWithin(_, _)
callersWithin(S, k) ==
    IF k = 0 THEN S
    ELSE callersWithin(S \cup {Caller(e) : e \in {x \in 1..Len(edges) : Callee(x) \in S}}, k - 1)
Ancestors(f) ==
    callersWithin({Caller(e) : e \in {x \in 1..Len(edges) : Callee(x) = f}}, Len(edges))
LeaseAbove(f) == \E a \in Ancestors(f) : FuncName(a) = leaseFunction

\* C3 as stated: checkLease answers true exactly when Lease is backward
\* reachable from its argument
C3_FullReachability ==
    (gpc = "done" /\ result \in {"true", "false"}) => ((result = "true") <=> LeaseAbove(nf))

\* C3 amended: an answer of true is always backed by a chain of caller edges
\* from the function up to Lease
C3_TrueOnlyIfReachable ==
    (gpc = "done" /\ result = "true") => LeaseAbove(nf)

C3_Witness ==
    gpc = "done" /\ result = "true" /\ LeaseAbove(nf) /\ Len(edges) = 3
      /\ ~(\E e \in 1..Len(edges) : Callee(e) = nf /\ Caller(e) = "Lease")

\* C10: the caller walk of checkLease ends with an answer on every finite graph
C10_WalkTerminates ==
    gpc = "done" => result \in {"true", "false"}

(***************************************************************************)
(* The scan: what the claims speak of.                                     *)
(***************************************************************************)
\* the functions the entry point reaches in the call graph
RECURSIVE calleesWithin(_, _)
calleesWithin(S, k) ==
    IF k = 0 THEN S
    ELSE calleesWithin(S \cup {Callee(e) : e \in {x \in 1..Len(edges) : Caller(x) \in S}}, k - 1)
Live(f) == f \in calleesWithin({"main"}, Len(edges))

\* the function a site lies in: the declared function itself for its declaration
SiteFn(k) == IF file[k].shape = "funcdecl" THEN "F" ELSE file[k].fn

\* the diagnostics at the positions of site k
ReportsAtSite(k) ==
    LET at(r) == IF file[k].shape = "funcdecl" THEN r.pos = FuncNode("F").pos
                 ELSE r.pos.file = At(k, 1).file /\ r.pos.line = At(k, 1).line
    IN SelectSeq(reports, at)

\* the field of the site is a target of its assignment
IsWrite(shape) == shape \in {"assign", "multiLast", "multiFirst"}

\* C1: every field access of a guarded type outside any lease callback, in
\* a live function, gets exactly one violation: the assignment message when
\* the field is the target of an assignment, the access message otherwise
C1_OneViolationPerAccess ==
    ScanDone =>
      \A k \in 1..Len(file) :
        (/\ file[k].shape \in AccessShapes
         /\ Live(file[k].fn)
         /\ ~LeaseAbove(file[k].fn))
        => /\ Len(ReportsAtSite(k)) = 1
           /\ ReportsAtSite(k)[1].msg = IF IsWrite(file[k].shape) THEN msgAssign ELSE msgAccess

\* the graph has the edge from Lease to the literal lit
PassedToLease(lit) ==
    \E e \in 1..Len(edges) : Caller(e) = "Lease" /\ Callee(e) = lit

\* the literals written inside the literal lit, itself included
WrittenInside(lit) == IF lit = "K" THEN {"K", "N"} ELSE {lit}

\* C2 (as stated): no read or write violation is reported at a field access
\* lexically inside the literal passed to Lease, be it in the literal itself
\* or in a literal nested in it, whatever the other edges of the graph
C2_NoViolationLexicallyInsideLease ==
    \A k \in 1..Len(file) :
      (/\ file[k].shape \in AccessShapes
       /\ \E lit \in {"L", "K"} :
            PassedToLease(lit) /\ file[k].fn \in WrittenInside(lit))
      => \A i \in 1..Len(ReportsAtSite(k)) :
           ReportsAtSite(k)[i].msg \notin {msgAccess, msgAssign}

\* C2 (amended): no read or write violation is reported at a field access
\* whose innermost enclosing function is the literal passed to Lease (the
\* graph has the edge from Lease to it), whatever the other edges of the graph
C2_NoViolationInsideLease ==
    \A k \in 1..Len(file) :
      (/\ file[k].shape \in AccessShapes
       /\ file[k].fn \in {"L", "K"}
       /\ PassedToLease(file[k].fn))
      => \A i \in 1..Len(ReportsAtSite(k)) :
           ReportsAtSite(k)[i].msg \notin {msgAccess, msgAssign}

\* main calls the literal K before passing it to Lease, K calls its nested
\* literal, and the scan of the assignment written in K ended without a report
C2_Witness ==
    /\ ScanDone
    /\ file = <<[shape |-> "assign", fn |-> "K", params |-> <<>>]>>
    /\ edges = << <<"main", "K">>, <<"Lease", "K">>, <<"K", "N">> >>
    /\ reports = <<>>

\* C4: no violation of any kind is reported at a site whose function the
\* entry point does not reach in the call graph
C4_NoViolationInDeadCode ==
    \A k \in 1..Len(file) :
      (SiteFn(k) \in FileFuncs /\ ~Live(SiteFn(k))) => ReportsAtSite(k) = <<>>

\* a parameter of the list is a cataloged type or a pointer to one
HasCritParam(ps) ==
    \E i \in 1..Len(ps) :
      /\ ps[i].name \in critSecTypesByName
      /\ ps[i].kind = "Ident" \/ (ps[i].kind = "StarExpr" /\ ps[i].xIsIdent)

\* C5: a live function declaration with a guarded parameter anywhere in its
\* list gets exactly one violation, at its position, whatever the other
\* parameters are
C5_OneArgViolation ==
    ScanDone =>
      \A k \in 1..Len(file) :
        (/\ file[k].shape = "funcdecl"
         /\ Live("F")
         /\ HasCritParam(file[k].params))
        => ReportsAtSite(k) = <<[pos |-> FuncNode("F").pos, msg |-> msgArg]>>

DeclName(k) == IF file[k].shape = "varU" THEN "U" ELSE "T"
IsDecl(k) == file[k].shape \in DeclShapes

\* C6: a declaration gets the multiple-instance violation exactly when it
\* is in live code and an earlier declaration of the same guarded type name
\* was in live code too.  Stated for the files whose declarations all lie
\* in functions that are either reached from the entry point or not called
\* at all.
C6_SecondLiveInstanceOnly ==
    (/\ ScanDone
     /\ \A k \in 1..Len(file) :
          IsDecl(k) => /\ file[k].fn \in FileFuncs
                       /\ Live(file[k].fn) <=> isFunctionInGraph(FuncNode(file[k].fn)))
    => \A k \in 1..Len(file) :
         IsDecl(k) =>
           LET second == /\ DeclName(k) \in critSecTypesByName
                         /\ Live(file[k].fn)
                         /\ \E j \in 1..(k - 1) :
                              IsDecl(j) /\ DeclName(j) = DeclName(k) /\ Live(file[j].fn)
           IN Len(ReportsAtSite(k)) = (IF second THEN 1 ELSE 0)
              /\ \A i \in 1..Len(ReportsAtSite(k)) : ReportsAtSite(k)[i].msg = msgMultiple

(***************************************************************************)
(* The lease primitive.                                                    *)
(***************************************************************************)
InCallback(g) == \E i \in 1..Len(frames[g]) : frames[g][i].pc = "f"

\* C7: at most one callback supplied to Lease on the same Section is
\* executing, however many goroutines call Lease
C7_MutualExclusion ==
    \A g, h \in Goroutines : (InCallback(g) /\ InCallback(h)) => g = h

C7_Witness ==
    \E g, h \in Goroutines :
        /\ g # h
        /\ InCallback(g)
        /\ frames[h] # <<>> /\ Top(h).pc = "lock"
        /\ returned[h] # <<>>

\* C8: a Lease invocation that returns, with nil or with an error, has
\* released the lock it took: no goroutine holds the lock at the return of
\* its invocation or outside Lease
C8_ReleasedOnReturn ==
    \A g \in Goroutines :
        (frames[g] = <<>> \/ Top(g).pc = "return") => lock # g

\* a Lease call returned an error and the next call of the same goroutine
\* on the same Section acquired the lock
C8_Witness ==
    \E g \in Goroutines :
        /\ returned[g] = <<"error">>
        /\ frames[g] # <<>> /\ Top(g).pc = "f"
        /\ lock = g

\* C9: once a callback running inside Lease has called Lease on the same
\* Section, the inner call waits in Lock for ever (it never acquires) and
\* neither the inner nor the outer invocation returns
Nested(g) == Len(frames[g]) >= 2
C9_NestedLeaseDeadlocks ==
    /\ [](\A g \in Goroutines : Nested(g) => (Top(g).pc = "lock" /\ frames[g][1].pc = "f"))
    /\ [][\A g \in Goroutines : Nested(g) => frames'[g] = frames[g]]_vars

C9_Witness ==
    \E g \in Goroutines : Nested(g) /\ Top(g).pc = "lock" /\ lock = g

====
